---- MODULE Spec2Model ----
(***************************************************************************)
(* Blogicum (blogicum/blog): posts, categories and comments, the request   *)
(* handlers of views.py and the deletion rules of models.py.               *)
(*                                                                         *)
(* The store is the three tables Post, Category and Comment.  Of a post    *)
(* the model keeps the fields the handlers branch on (author, category,    *)
(* is_published, pub_date); title, text, image and location are form data  *)
(* no handler reads.  Of a comment it keeps post, author and text.  Users  *)
(* belong to django.contrib.auth and are a fixed set.  A category is       *)
(* identified by its unique slug.  Every request leaves its response in    *)
(* the variable response, together with the time the request read.  A feed *)
(* is the queryset of its view; the paginator's slicing of it is Django's. *)
(***************************************************************************)
EXTENDS Integers, Sequences, FiniteSets

MaxPosts == 2
MaxComments == 1
MaxTime == 1

Users == {"alice", "bob"}
Anonymous == "anonymous"
Viewers == Users \cup {Anonymous}
Usernames == Users \cup {"nobody"}
CategorySlugs == {"travel", "food"}
Null == "null"
Texts == {"a", "b"}

PostIds == 1..MaxPosts
CommentIds == 1..MaxComments
Times == 0..MaxTime

VARIABLES posts, post_creator, next_post_id, comments, comment_origin,
          next_comment_id, categories, now, response

store == <<posts, comments, categories>>
vars == <<posts, post_creator, next_post_id, comments, comment_origin,
          next_comment_id, categories, now, response>>

\* The data a valid PostForm carries: every model field but author; the
\* category is one of the categories there are.
PostForms == [category : DOMAIN categories, is_published : BOOLEAN, pub_date : Times]

\* The valid PostForms of a post published at once.
PublishedNowForms == {f \in PostForms : f.is_published /\ f.pub_date = now}

\* The data a valid CommentForm carries: the text.
CommentForms == Texts

NoTarget == <<>>
Login == <<"login">>
PostDetail(pk) == <<"post_detail", pk>>
Profile(user) == <<"profile", user>>

Response(op, user, pk, cid, name, outcome, to, feed) ==
    [op |-> op, user |-> user, pk |-> pk, cid |-> cid, name |-> name,
     outcome |-> outcome, to |-> to, feed |-> feed, now |-> now]

\* A function without the key k.
Without(f, k) == [x \in DOMAIN f \ {k} |-> f[x]]

\* Count('comments'): the number of comments of post pk.
CommentCount(C, pk) == Cardinality({c \in DOMAIN C : C[c].post = pk})

\* order_by('-pub_date'): every listing of the rows S by descending pub_date;
\* the order of rows with equal pub_date is the database's choice.
OrderByPubDateDesc(P, S) ==
    {s \in [1..Cardinality(S) -> S] :
        /\ \A i, j \in DOMAIN s : i # j => s[i] # s[j]
        /\ \A i, j \in DOMAIN s : i < j => P[s[i]].pub_date >= P[s[j]].pub_date}

\* annotate(comment_count=Count('comments')) on a listing.
Annotate(s) ==
    [i \in DOMAIN s |-> [id |-> s[i], comment_count |-> CommentCount(comments, s[i])]]

\* IndexFilter without the test of the category's flag.
IndexFilter_NoCategoryFlag(P, C, t) ==
    {p \in DOMAIN P : P[p].is_published /\ P[p].pub_date <= t}

\* PostListView.get_queryset: the filter, an inner join on category.
IndexFilter(P, C, t) ==
    {p \in DOMAIN P :
        /\ P[p].is_published
        /\ \E c \in DOMAIN C : c = P[p].category /\ C[c].is_published
        /\ P[p].pub_date <= t}

\* CategoryOr404 without is_published=True.
CategoryOr404_AnyFlag(C, slug) == \E c \in DOMAIN C : c = slug

\* get_object_or_404(Category, slug=..., is_published=True).
CategoryOr404(C, slug) == \E c \in DOMAIN C : c = slug /\ C[c].is_published

\* CategoryPostListView.get_queryset: the posts of one category.
CategoryFilter(P, slug, t) ==
    {p \in DOMAIN P :
        /\ P[p].is_published
        /\ P[p].category = slug
        /\ P[p].pub_date <= t}

\* ProfileFilter with the filter of the other feeds added.
ProfileFilter_PublishedOnly(P, username) ==
    {p \in DOMAIN P : P[p].author = username /\ P[p].is_published}

\* ProfileListView.get_queryset: the posts of one author.
ProfileFilter(P, username) == {p \in DOMAIN P : P[p].author = username}

\* GetObject without the test of the post's own flag.
GetObject_NoPostFlag(P, C, user, pk, t) ==
    IF pk \notin DOMAIN P THEN "not_found"
    ELSE IF P[pk].author # user
    THEN IF P[pk].category = Null THEN "error"
         ELSE IF C[P[pk].category].is_published /\ P[pk].pub_date <= t
              THEN "ok" ELSE "not_found"
    ELSE "ok"

\* PostDetailView.get_object: the outcome of looking post pk up for a viewer.
\* category.is_published is read first, on whatever category holds: on None
\* the attribute access raises.
GetObject(P, C, user, pk, t) ==
    IF pk \notin DOMAIN P THEN "not_found"
    ELSE IF P[pk].author # user
    THEN IF P[pk].category = Null THEN "error"
         ELSE IF /\ C[P[pk].category].is_published
                 /\ P[pk].pub_date <= t
                 /\ P[pk].is_published
              THEN "ok" ELSE "not_found"
    ELSE "ok"

Init ==
    /\ posts = <<>>
    /\ post_creator = <<>>
    /\ next_post_id = 1
    /\ comments = <<>>
    /\ comment_origin = <<>>
    /\ next_comment_id = 1
    /\ categories = <<>>
    /\ now = 0
    /\ response = Response("none", Anonymous, 0, 0, "", "ok", NoTarget, <<>>)

UnchangedPosts == UNCHANGED <<posts, post_creator, next_post_id>>
UnchangedComments == UNCHANGED <<comments, comment_origin, next_comment_id>>
UnchangedStore == UnchangedPosts /\ UnchangedComments /\ UNCHANGED categories

\* A request that writes nothing: only the response changes.
Respond(r) == response' = r /\ UnchangedStore /\ UNCHANGED now

\* The clock: timezone.now() never goes back.
Tick == now < MaxTime /\ now' = now + 1 /\ UnchangedStore /\ UNCHANGED response

\* admin.site.register(Category): the admin creates or edits a category.
AdminSaveCategory ==
    \E slug \in CategorySlugs, pub \in BOOLEAN :
        /\ categories' = [s \in DOMAIN categories \cup {slug} |->
                            IF s = slug THEN [is_published |-> pub] ELSE categories[s]]
        /\ response' = Response("admin_save_category", Anonymous, 0, 0, slug, "ok",
                                NoTarget, <<>>)
        /\ UnchangedPosts /\ UnchangedComments /\ UNCHANGED now

\* SetNull without the restriction to the posts of the category.
SetNull_EveryPost(P, slug) == [p \in DOMAIN P |-> [P[p] EXCEPT !.category = Null]]

\* Post.category, on_delete=SET_NULL: the posts once category slug is gone.
SetNull(P, slug) ==
    [p \in DOMAIN P |->
        IF P[p].category = slug THEN [P[p] EXCEPT !.category = Null] ELSE P[p]]

\* The admin deletes a category.
AdminDeleteCategory ==
    \E slug \in DOMAIN categories :
        /\ categories' = Without(categories, slug)
        /\ posts' = SetNull(posts, slug)
        /\ response' = Response("admin_delete_category", Anonymous, 0, 0, slug, "ok",
                                NoTarget, <<>>)
        /\ UNCHANGED <<post_creator, next_post_id, now>> /\ UnchangedComments

\* PostListView: the global feed.
PostListView ==
    \E user \in Viewers :
    \E s \in OrderByPubDateDesc(posts, IndexFilter(posts, categories, now)) :
        Respond(Response("index", user, 0, 0, "", "ok", NoTarget, Annotate(s)))

\* CategoryPostListView: the feed of one category.
CategoryPostListView ==
    \E user \in Viewers, slug \in CategorySlugs :
        IF CategoryOr404(categories, slug)
        THEN \E s \in OrderByPubDateDesc(posts, CategoryFilter(posts, slug, now)) :
                Respond(Response("category", user, 0, 0, slug, "ok", NoTarget, Annotate(s)))
        ELSE Respond(Response("category", user, 0, 0, slug, "not_found", NoTarget, <<>>))

\* ProfileListView: the feed of one user; get_context_data looks the user up.
ProfileListView ==
    \E user \in Viewers, username \in Usernames :
        IF username \in Users
        THEN \E s \in OrderByPubDateDesc(posts, ProfileFilter(posts, username)) :
                Respond(Response("profile", user, 0, 0, username, "ok", NoTarget,
                                 Annotate(s)))
        ELSE Respond(Response("profile", user, 0, 0, username, "not_found", NoTarget, <<>>))

\* PostDetailView: one post.
PostDetailView ==
    \E user \in Viewers, pk \in PostIds :
        Respond(Response("detail", user, pk, 0, "",
                         GetObject(posts, categories, user, pk, now), NoTarget, <<>>))

\* LoginRequiredMixin / @login_required: an anonymous request is sent to the
\* login page before the handler's own code runs.
LoginRequired(op, pk, cid) ==
    Respond(Response(op, Anonymous, pk, cid, "", "redirect", Login, <<>>))

\* PostCreateView: form_valid sets the author to the requesting user.  Forms
\* is the set of valid forms requests may carry; a GET, or a POST of invalid
\* data, shows the form.
PostCreate(Forms) ==
    \/ LoginRequired("create_post", 0, 0)
    \/ \E user \in Users :
           Respond(Response("create_post", user, 0, 0, "", "form", NoTarget, <<>>))
    \/ \E user \in Users, form \in Forms :
           /\ next_post_id <= MaxPosts
           /\ posts' = [p \in DOMAIN posts \cup {next_post_id} |->
                          IF p = next_post_id
                          THEN [author |-> user, category |-> form.category,
                                is_published |-> form.is_published,
                                pub_date |-> form.pub_date]
                          ELSE posts[p]]
           /\ post_creator' = [p \in DOMAIN posts \cup {next_post_id} |->
                                 IF p = next_post_id THEN user ELSE post_creator[p]]
           /\ next_post_id' = next_post_id + 1
           /\ response' = Response("create_post", user, next_post_id, 0, "",
                                   "redirect", Profile(user), <<>>)
           /\ UnchangedComments /\ UNCHANGED <<categories, now>>

PostCreateView == PostCreate(PostForms)

\* DispatchPost without the author test.
DispatchPost_NoAuthorTest(P, user, pk) ==
    IF pk \notin DOMAIN P THEN "not_found" ELSE "pass"

\* DispatchPostMixin.dispatch: what the mixin answers before the view runs,
\* "pass" when it hands the request on.
DispatchPost(P, user, pk) ==
    IF pk \notin DOMAIN P THEN "not_found"
    ELSE IF P[pk].author # user THEN "redirect"
    ELSE "pass"

\* The response of a request DispatchPostMixin.dispatch does not hand on.
DispatchPostResponse(op, user, pk) ==
    Response(op, user, pk, 0, "", DispatchPost(posts, user, pk),
             IF DispatchPost(posts, user, pk) = "redirect" THEN PostDetail(pk) ELSE NoTarget,
             <<>>)

\* SavePostForm of a form that keeps the author field, submitted with
\* another user in it.
SavePostForm_WithAuthor(post, form) ==
    [post EXCEPT !.author = CHOOSE u \in Users : u # post.author,
                 !.category = form.category,
                 !.is_published = form.is_published,
                 !.pub_date = form.pub_date]

\* PostForm, exclude = ('author',): saving a form writes every kept field
\* but author.
SavePostForm(post, form) ==
    [post EXCEPT !.category = form.category,
                 !.is_published = form.is_published,
                 !.pub_date = form.pub_date]

\* PostUpdateView: LoginRequiredMixin, DispatchPostMixin, then UpdateView.
PostUpdate(Forms) ==
    \/ \E pk \in PostIds : LoginRequired("edit_post", pk, 0)
    \/ \E user \in Users, pk \in PostIds :
           /\ DispatchPost(posts, user, pk) # "pass"
           /\ Respond(DispatchPostResponse("edit_post", user, pk))
    \/ \E user \in Users, pk \in PostIds :
           /\ DispatchPost(posts, user, pk) = "pass"
           /\ Respond(Response("edit_post", user, pk, 0, "", "form", NoTarget, <<>>))
    \/ \E user \in Users, pk \in PostIds, form \in Forms :
           /\ DispatchPost(posts, user, pk) = "pass"
           /\ posts' = [posts EXCEPT ![pk] = SavePostForm(@, form)]
           /\ response' = Response("edit_post", user, pk, 0, "", "redirect",
                                   PostDetail(pk), <<>>)
           /\ UNCHANGED <<post_creator, next_post_id, categories, now>>
           /\ UnchangedComments

PostUpdateView == PostUpdate(PostForms)

\* Comment.post, on_delete=CASCADE: the comments left when post pk goes.
Cascade(C, pk) == [c \in {x \in DOMAIN C : C[x].post # pk} |-> C[c]]

\* PostDeleteView: LoginRequiredMixin, DispatchPostMixin, then DeleteView: a
\* GET asks for confirmation, a POST deletes.
PostDeleteView ==
    \/ \E pk \in PostIds : LoginRequired("delete_post", pk, 0)
    \/ \E user \in Users, pk \in PostIds :
           /\ DispatchPost(posts, user, pk) # "pass"
           /\ Respond(DispatchPostResponse("delete_post", user, pk))
    \/ \E user \in Users, pk \in PostIds :
           /\ DispatchPost(posts, user, pk) = "pass"
           /\ Respond(Response("delete_post", user, pk, 0, "", "form", NoTarget, <<>>))
    \/ \E user \in Users, pk \in PostIds :
           /\ DispatchPost(posts, user, pk) = "pass"
           /\ posts' = Without(posts, pk)
           /\ post_creator' = Without(post_creator, pk)
           /\ comments' = Cascade(comments, pk)
           /\ comment_origin' = [c \in DOMAIN comments' |-> comment_origin[c]]
           /\ response' = Response("delete_post", user, pk, 0, "", "redirect",
                                   Profile(user), <<>>)
           /\ UNCHANGED <<next_post_id, next_comment_id, categories, now>>

\* What a saved comment form makes: add_comment and CommentCreateView.form_valid
\* set author and post, the form gives the text.
NewComment(user, post_id, form) == [post |-> post_id, author |-> user, text |-> form]

\* INSERT of a comment, with the record of who made it and where.
InsertComment(op, user, post_id, form) ==
    /\ next_comment_id <= MaxComments
    /\ comments' = [c \in DOMAIN comments \cup {next_comment_id} |->
                      IF c = next_comment_id THEN NewComment(user, post_id, form)
                      ELSE comments[c]]
    /\ comment_origin' = [c \in DOMAIN comments \cup {next_comment_id} |->
                            IF c = next_comment_id
                            THEN [post |-> post_id, author |-> user]
                            ELSE comment_origin[c]]
    /\ next_comment_id' = next_comment_id + 1
    /\ response' = Response(op, user, post_id, next_comment_id, "",
                            "redirect", PostDetail(post_id), <<>>)
    /\ UnchangedPosts /\ UNCHANGED <<categories, now>>

\* add_comment: the comment is saved when the form is valid; the redirect to
\* the post follows either way.
add_comment ==
    \/ \E post_id \in PostIds : LoginRequired("add_comment", post_id, 0)
    \/ \E user \in Users, post_id \in PostIds :
           /\ post_id \notin DOMAIN posts
           /\ Respond(Response("add_comment", user, post_id, 0, "", "not_found",
                               NoTarget, <<>>))
    \/ \E user \in Users, post_id \in PostIds :
           /\ post_id \in DOMAIN posts
           /\ Respond(Response("add_comment", user, post_id, 0, "", "redirect",
                               PostDetail(post_id), <<>>))
    \/ \E user \in Users, post_id \in PostIds, form \in CommentForms :
           /\ post_id \in DOMAIN posts
           /\ InsertComment("add_comment", user, post_id, form)

\* CommentCreateView: its own dispatch looks the post up first, then
\* LoginRequiredMixin, then CreateView.
CommentCreateView ==
    \/ \E user \in Viewers, post_id \in PostIds :
           /\ post_id \notin DOMAIN posts
           /\ Respond(Response("comment_create", user, post_id, 0, "", "not_found",
                               NoTarget, <<>>))
    \/ \E post_id \in PostIds :
           /\ post_id \in DOMAIN posts
           /\ LoginRequired("comment_create", post_id, 0)
    \/ \E user \in Users, post_id \in PostIds :
           /\ post_id \in DOMAIN posts
           /\ Respond(Response("comment_create", user, post_id, 0, "", "form",
                               NoTarget, <<>>))
    \/ \E user \in Users, post_id \in PostIds, form \in CommentForms :
           /\ post_id \in DOMAIN posts
           /\ InsertComment("comment_create", user, post_id, form)

\* CommentOr404 looking the comment up by id alone.
CommentOr404_AnyPost(C, user, post_id, comment_id) ==
    IF comment_id \notin DOMAIN C THEN "not_found"
    ELSE IF user # C[comment_id].author THEN "redirect"
    ELSE "pass"

\* get_object_or_404(Comment, id=comment_id, post_id=post_id), then the
\* author test of edit_comment and delete_comment: "pass" when both let the
\* request through.
CommentOr404(C, user, post_id, comment_id) ==
    IF ~(comment_id \in DOMAIN C /\ C[comment_id].post = post_id) THEN "not_found"
    ELSE IF user # C[comment_id].author THEN "redirect"
    ELSE "pass"

\* The response of a comment request that does not get through.
CommentOr404Response(op, user, post_id, comment_id) ==
    Response(op, user, post_id, comment_id, "",
             CommentOr404(comments, user, post_id, comment_id),
             IF CommentOr404(comments, user, post_id, comment_id) = "redirect"
             THEN PostDetail(post_id) ELSE NoTarget,
             <<>>)

\* CommentForm, fields = ('text',): saving a form writes the text.
SaveCommentForm(comment, form) == [comment EXCEPT !.text = form]

\* edit_comment: CommentForm(request.POST or None, instance=instance); an
\* invalid or absent form shows the form.
edit_comment ==
    \/ \E post_id \in PostIds, comment_id \in CommentIds :
           LoginRequired("edit_comment", post_id, comment_id)
    \/ \E user \in Users, post_id \in PostIds, comment_id \in CommentIds :
           /\ CommentOr404(comments, user, post_id, comment_id) # "pass"
           /\ Respond(CommentOr404Response("edit_comment", user, post_id, comment_id))
    \/ \E user \in Users, post_id \in PostIds, comment_id \in CommentIds :
           /\ CommentOr404(comments, user, post_id, comment_id) = "pass"
           /\ Respond(Response("edit_comment", user, post_id, comment_id, "", "form",
                               NoTarget, <<>>))
    \/ \E user \in Users, post_id \in PostIds, comment_id \in CommentIds,
          form \in CommentForms :
           /\ CommentOr404(comments, user, post_id, comment_id) = "pass"
           /\ comments' = [comments EXCEPT ![comment_id] = SaveCommentForm(@, form)]
           /\ response' = Response("edit_comment", user, post_id, comment_id, "",
                                   "redirect", PostDetail(post_id), <<>>)
           /\ UNCHANGED <<comment_origin, next_comment_id, categories, now>>
           /\ UnchangedPosts

\* delete_comment: a GET asks for confirmation, a POST deletes.
delete_comment ==
    \/ \E post_id \in PostIds, comment_id \in CommentIds :
           LoginRequired("delete_comment", post_id, comment_id)
    \/ \E user \in Users, post_id \in PostIds, comment_id \in CommentIds :
           /\ CommentOr404(comments, user, post_id, comment_id) # "pass"
           /\ Respond(CommentOr404Response("delete_comment", user, post_id, comment_id))
    \/ \E user \in Users, post_id \in PostIds, comment_id \in CommentIds :
           /\ CommentOr404(comments, user, post_id, comment_id) = "pass"
           /\ Respond(Response("delete_comment", user, post_id, comment_id, "", "form",
                               NoTarget, <<>>))
    \/ \E user \in Users, post_id \in PostIds, comment_id \in CommentIds :
           /\ CommentOr404(comments, user, post_id, comment_id) = "pass"
           /\ comments' = Without(comments, comment_id)
           /\ comment_origin' = Without(comment_origin, comment_id)
           /\ response' = Response("delete_comment", user, post_id, comment_id, "",
                                   "redirect", PostDetail(post_id), <<>>)
           /\ UNCHANGED <<next_comment_id, categories, now>>
           /\ UnchangedPosts

\* The whole application.
Next ==
    \/ Tick
    \/ AdminSaveCategory
    \/ AdminDeleteCategory
    \/ PostListView
    \/ CategoryPostListView
    \/ ProfileListView
    \/ PostDetailView
    \/ PostCreateView
    \/ PostUpdateView
    \/ PostDeleteView
    \/ add_comment
    \/ CommentCreateView
    \/ edit_comment
    \/ delete_comment

Spec == Init /\ [][Next]_vars

\* Posts, categories, the clock and every view that reads them; no comments.
NextFeed ==
    \/ Tick
    \/ AdminSaveCategory
    \/ AdminDeleteCategory
    \/ PostListView
    \/ CategoryPostListView
    \/ ProfileListView
    \/ PostDetailView
    \/ PostCreateView
    \/ PostUpdateView
    \/ PostDeleteView

SpecFeed == Init /\ [][NextFeed]_vars

\* Every handler, the clock standing still and every post published at once.
NextOwner ==
    \/ AdminSaveCategory
    \/ AdminDeleteCategory
    \/ PostListView
    \/ CategoryPostListView
    \/ ProfileListView
    \/ PostDetailView
    \/ PostCreate(PublishedNowForms)
    \/ PostUpdate(PublishedNowForms)
    \/ PostDeleteView
    \/ add_comment
    \/ CommentCreateView
    \/ edit_comment
    \/ delete_comment

SpecOwner == Init /\ [][NextOwner]_vars

(***************************************************************************)
(* What the claims speak of.                                               *)
(***************************************************************************)

\* A post is publicly visible at time t: it is published, its category is
\* published and its pub_date has come.
PubliclyVisible(p, t) ==
    /\ posts[p].is_published
    /\ posts[p].category \in DOMAIN categories
    /\ categories[posts[p].category].is_published
    /\ posts[p].pub_date <= t

FeedIds(feed) == {feed[i].id : i \in DOMAIN feed}

NoDuplicates(feed) == Len(feed) = Cardinality(FeedIds(feed))

SortedDesc(feed) ==
    \A i, j \in DOMAIN feed :
        i < j => posts[feed[i].id].pub_date >= posts[feed[j].id].pub_date

\* The last request was a detail request for an existing post by someone
\* who is not its author.
DetailByNonAuthor ==
    /\ response.op = "detail"
    /\ response.pk \in DOMAIN posts
    /\ response.user # posts[response.pk].author

\* C1: the detail view returns a post to its author whatever its flags; to
\* anyone else it returns the post iff the post, its category and its
\* pub_date make it publicly visible, and answers Not-Found otherwise.
C1_DetailVisibility ==
    (response.op = "detail" /\ response.pk \in DOMAIN posts) =>
        IF response.user = posts[response.pk].author
        THEN response.outcome = "ok"
        ELSE /\ response.outcome \in {"ok", "not_found"}
             /\ posts[response.pk].category # Null =>
                    (response.outcome = "ok" <=> PubliclyVisible(response.pk, response.now))

\* C2: for a post whose category is null the detail view does not fail for
\* a non-author: the post is visible iff it is published and its pub_date
\* has come.
C2_NullCategoryNoError ==
    (DetailByNonAuthor /\ posts[response.pk].category = Null) =>
        /\ response.outcome \in {"ok", "not_found"}
        /\ response.outcome = "ok" <=>
              (posts[response.pk].is_published
               /\ posts[response.pk].pub_date <= response.now)

PostIdOps ==
    {"detail", "edit_post", "delete_post", "add_comment", "comment_create",
     "edit_comment", "delete_comment"}

C4_GlobalFeed ==
    response.op = "index" =>
        /\ FeedIds(response.feed) = {p \in DOMAIN posts : PubliclyVisible(p, response.now)}
        /\ NoDuplicates(response.feed)
        /\ SortedDesc(response.feed)
        /\ \A p \in FeedIds(response.feed) :
              GetObject(posts, categories, Anonymous, p, response.now) = "ok"

C4_Witness ==
    /\ response.op = "index"
    /\ Len(response.feed) = 2
    /\ posts[response.feed[1].id].pub_date > posts[response.feed[2].id].pub_date

\* C6: the profile feed of a user, for any viewer, holds exactly the posts
\* that user wrote, hidden ones too.
C6_ProfileFeed ==
    (response.op = "profile" /\ response.name \in Users) =>
        /\ response.outcome = "ok"
        /\ FeedIds(response.feed) = {p \in DOMAIN posts : posts[p].author = response.name}
        /\ NoDuplicates(response.feed)

C6_Witness ==
    /\ response.op = "profile"
    /\ response.name \in Users
    /\ response.user # response.name
    /\ \E p \in FeedIds(response.feed) : ~PubliclyVisible(p, response.now)
    /\ \E p \in DOMAIN posts : posts[p].author # response.name

\* C7: the category feed answers Not-Found for a slug no category has and
\* for a hidden category; otherwise it holds exactly the published posts of
\* that category whose pub_date has come, by descending pub_date.
C7_CategoryFeed ==
    response.op = "category" =>
        IF \/ response.name \notin DOMAIN categories
           \/ ~categories[response.name].is_published
        THEN response.outcome = "not_found"
        ELSE /\ response.outcome = "ok"
             /\ FeedIds(response.feed) =
                    {p \in DOMAIN posts : /\ posts[p].category = response.name
                                          /\ posts[p].is_published
                                          /\ posts[p].pub_date <= response.now}
             /\ NoDuplicates(response.feed)
             /\ SortedDesc(response.feed)

C7_Witness ==
    /\ response.op = "category"
    /\ response.outcome = "ok"
    /\ Len(response.feed) = 1
    /\ \E p \in DOMAIN posts : posts[p].category \notin {response.name, Null}

\* Request r, seen from the state it was made in, asks to edit or delete a
\* post or a comment of someone other than its authenticated sender.
ModifiesForeign(r) ==
    /\ r.user \in Users
    /\ \/ /\ r.op \in {"edit_post", "delete_post"}
          /\ r.pk \in DOMAIN posts
          /\ posts[r.pk].author # r.user
       \/ /\ r.op \in {"edit_comment", "delete_comment"}
          /\ r.cid \in DOMAIN comments
          /\ comments[r.cid].post = r.pk
          /\ comments[r.cid].author # r.user

\* C5: an authenticated viewer who asks to edit or delete a post or comment
\* that is not theirs is redirected to the detail view of the post, and the
\* store stays as it was.
C5_NonAuthorRedirected ==
    [][ModifiesForeign(response') =>
            /\ response'.outcome = "redirect"
            /\ response'.to = PostDetail(response'.pk)
            /\ UNCHANGED store]_vars

C5_Witness ==
    /\ response.op = "edit_post"
    /\ response.user \in Users
    /\ response.pk \in DOMAIN posts
    /\ posts[response.pk].author # response.user
    /\ response.to = PostDetail(response.pk)

\* C8: deleting a category deletes no post, sets category to null on the
\* posts that had it and changes nothing else; deleting a post deletes that
\* post and exactly its comments.
C8_DeletionRules ==
    [][/\ response'.op = "admin_delete_category" =>
            /\ DOMAIN posts' = DOMAIN posts
            /\ \A p \in DOMAIN posts :
                  posts'[p] = IF posts[p].category = response'.name
                              THEN [posts[p] EXCEPT !.category = Null]
                              ELSE posts[p]
            /\ comments' = comments
       /\ (response'.op = "delete_post" /\ response'.to = Profile(response'.user)) =>
            /\ DOMAIN posts' = DOMAIN posts \ {response'.pk}
            /\ \A p \in DOMAIN posts' : posts'[p] = posts[p]
            /\ DOMAIN comments' = {c \in DOMAIN comments : comments[c].post # response'.pk}
            /\ \A c \in DOMAIN comments' : comments'[c] = comments[c]
            /\ categories' = categories]_vars

C8_Witness ==
    /\ response.op = "admin_delete_category"
    /\ \E p, q \in DOMAIN posts :
          /\ posts[p].category = Null
          /\ posts[q].category \in DOMAIN categories
          /\ \E c \in DOMAIN comments : comments[c].post = p

\* Request r, seen from the state it was made in, names a post, category,
\* user or comment that is not there, or a comment of another post.
NamesNothing(r) ==
    \/ /\ r.op \in {"detail", "edit_post", "delete_post", "add_comment", "comment_create"}
       /\ r.pk \notin DOMAIN posts
    \/ /\ r.op = "category"
       /\ r.name \notin DOMAIN categories
    \/ /\ r.op = "profile"
       /\ r.name \notin Users
    \/ /\ r.op \in {"edit_comment", "delete_comment"}
       /\ ~(r.cid \in DOMAIN comments /\ comments[r.cid].post = r.pk)

\* The handlers that check the login before they look anything up.
LoginFirstOps == {"edit_post", "delete_post", "add_comment", "edit_comment", "delete_comment"}

\* C9 as stated: every request that names something that is not there is
\* answered Not-Found and changes nothing.
C9_Original ==
    [][NamesNothing(response') =>
            /\ response'.outcome = "not_found"
            /\ UNCHANGED store]_vars

\* C9, amended: such a request changes nothing and is answered Not-Found,
\* except that the handlers that check the login first send an anonymous
\* sender to the login page.
C9_NotFoundOrLogin ==
    [][NamesNothing(response') =>
            /\ UNCHANGED store
            /\ IF response'.user = Anonymous /\ response'.op \in LoginFirstOps
               THEN response'.outcome = "redirect" /\ response'.to = Login
               ELSE response'.outcome = "not_found"]_vars

C9_Witness ==
    /\ response.op = "edit_comment"
    /\ response.user \in Users
    /\ response.cid \in DOMAIN comments
    /\ comments[response.cid].post # response.pk
    /\ response.pk \in DOMAIN posts
    /\ response.outcome = "not_found"

\* Every post and comment has the author it was created by, every comment
\* the post it was created on.
AuthorsFixed ==
    /\ \A p \in DOMAIN posts : posts[p].author = post_creator[p]
    /\ \A c \in DOMAIN comments :
          /\ comments[c].author = comment_origin[c].author
          /\ comments[c].post = comment_origin[c].post

FormOps == {"create_post", "edit_post", "add_comment", "comment_create", "edit_comment"}

\* C10: authorship never changes, and a request that creates or edits a post
\* or comment changes or removes an existing post or comment only when its
\* sender is the one who created it.
C10_AuthorshipFixed ==
    [][/\ AuthorsFixed'
       /\ response'.op \in FormOps =>
            /\ \A p \in DOMAIN posts :
                  (p \notin DOMAIN posts' \/ posts'[p] # posts[p]) =>
                      response'.user = post_creator[p]
            /\ \A c \in DOMAIN comments :
                  (c \notin DOMAIN comments' \/ comments'[c] # comments[c]) =>
                      response'.user = comment_origin[c].author]_vars

C10_Witness ==
    /\ response.op = "edit_comment"
    /\ response.to = PostDetail(response.pk)
    /\ response.cid \in DOMAIN comments
    /\ comments[response.cid].author = response.user
    /\ comments[response.cid].text = "b"
    /\ posts[response.pk].author # response.user
====
